---------------------------- MODULE Spec2Model ----------------------------
(***************************************************************************)
(* Pairing engine of src/contexts/SharedCoreContext.tsx (lines 105-585).   *)
(*                                                                         *)
(* The provider component is modelled as one engine: its hook state        *)
(* (initialized, pairings, registeredMethods), the collaborators it        *)
(* drives (crypto keychain, relayer, expirer, JSON-RPC history, the local  *)
(* event emitter) and the asynchronous calls in flight.  Every async       *)
(* function is cut at its awaits: one action per invocation (the           *)
(* synchronous prefix up to the first await) and one per continuation.     *)
(* Awaits with no read or write of the state between them are one step.    *)
(* Hook state is read at its current value, except registeredMethods,      *)
(* which each reader sees as the closure holding it captured it.  Time is  *)
(* in seconds.                                                             *)
(***************************************************************************)
EXTENDS Integers, Sequences, FiniteSets, TLC

\* ---- bounds of the model ----
MaxCalls == 2      \* asynchronous calls in flight at once
MaxTicks == 1      \* clock advances (of FIVE_MINUTES) in one behaviour
MaxId == 2         \* JSON-RPC request ids the engine generates
MaxOps == 3        \* operations invoked in one behaviour

\* ---- program constants ----
FIVE_MINUTES == 300
THIRTY_DAYS == 2592000
StartTime == 1000

Keys == {"k1", "k2"}
Topics == {"t1", "t2"}
BadTopic == ""
NoTopic == "-"
NoKey == "-"
Slots == 1..MaxCalls

\* crypto.setSymKey(symKey) with no override: the topic is the hash of the key
HashKey(k) == IF k = "k1" THEN "t1" ELSE "t2"

\* formatUri / parseUri: the URI carries topic and symKey side by side
FormatUri(topic, symKey) == [topic |-> topic, symKey |-> symKey]
ParseUri(uri) == [topic |-> uri.topic, symKey |-> uri.symKey]
\* a string that is no URL
BadUri == [topic |-> NoTopic, symKey |-> NoKey]
Uris == {FormatUri("t1", "k1"), FormatUri("t2", "k2"), FormatUri("t2", "k1")}
\* isValidUrl(params.uri)
IsValidUrl(uri) == uri # BadUri
\* isValidString(topic, false)
IsValidString(t) == t # BadTopic

VARIABLES
  now,               \* Date.now(), in seconds
  initialized,       \* useState(false), line 123
  pairings,          \* the pairing store: topic -> record
  keychain,          \* crypto keychain: topic -> symKey
  subs,              \* topics the relayer is subscribed to
  expirer,           \* expirer: topic -> expiry
  history,           \* JSON-RPC history: id -> record
  published,         \* messages handed to relayer.publish, in order
  relayListeners,    \* listeners on RELAYER_EVENTS.message
  expirerListeners,  \* listeners on EXPIRER_EVENTS.expired
  responded,         \* what the peer has answered: request id -> result or error
  pingListeners,     \* ids with an events.once("pairing_ping:<id>") listener
  timers,            \* pending setTimeout emissions of onPairingPingResponse
  registeredMethods, \* useState([]), line 124
  valueMethods,      \* registeredMethods as closed over by the memoized value
  seen,              \* keys and topics already in use: a random key is none of them
  nextId,            \* ids handed out by formatJsonRpcRequest
  calls,             \* async calls in flight: slot -> frame
  ops,               \* operations invoked so far
  done,              \* the call that completed in the last step, if any
  unsubFails         \* relayer.unsubscribe throws (the relay cannot be reached)

vars == <<now, initialized, pairings, keychain, subs, expirer, history,
          published, responded, relayListeners, expirerListeners, pingListeners, timers,
          registeredMethods, valueMethods, seen, nextId, calls, ops, done,
          unsubFails>>

world == <<pairings, keychain, subs, expirer>>
rpc == <<history, published, nextId, responded>>
listeners == <<relayListeners, expirerListeners, pingListeners, timers>>
\* what the engine does not write: the time and the relay's answer
env == <<now, unsubFails>>
hooks == <<initialized, registeredMethods, valueMethods>>

\* ---- external utilities (@walletconnect/utils, @walletconnect/time) ----
\* calcExpiry(ttl) = seconds(Date.now()) + ttl
\* variant: the ttl is forgotten
CalcExpiry_NoTtl(ttl) == now
CalcExpiry(ttl) == now + ttl
\* isExpired(expiry) = Date.now() >= expiry
IsExpired(expiry) == now >= expiry

\* ---- pairing store (../controllers/store) ----
StoreKeys == DOMAIN pairings
StoreValues == {[topic |-> t, expiry |-> pairings[t].expiry,
                 active |-> pairings[t].active,
                 peerMetadata |-> pairings[t].peerMetadata] : t \in DOMAIN pairings}
StoreSet(p, t, rec) == [x \in (DOMAIN p) \cup {t} |-> IF x = t THEN rec ELSE p[x]]
StoreDelete(p, t) == [x \in (DOMAIN p) \ {t} |-> p[x]]

\* ---- collaborators: keychain, expirer as maps ----
MapSet(m, t, v) == [x \in (DOMAIN m) \cup {t} |-> IF x = t THEN v ELSE m[x]]
MapDel(m, t) == [x \in (DOMAIN m) \ {t} |-> m[x]]
\* crypto.hasKeys(topic)
HasKeys(t) == t \in DOMAIN keychain

\* ---- frames of calls in flight ----
Idle == [op |-> "idle", pc |-> "-", topic |-> NoTopic, key |-> NoKey,
         expiry |-> 0, id |-> 0, flag |-> FALSE, tset |-> {}, swept |-> {},
         after |-> "-", method |-> "-"]
NoneDone == [op |-> "none", topic |-> NoTopic, outcome |-> "-", val |-> {}]
Frame(op, pc, topic) == [Idle EXCEPT !.op = op, !.pc = pc, !.topic = topic]
FreeSlots == {s \in Slots : calls[s] = Idle}
FirstFree == CHOOSE s \in FreeSlots : \A r \in FreeSlots : s <= r
Quiet == \A s \in Slots : calls[s].op = "idle" \/ calls[s].pc = "g_wait"

\* an application call (or the mount effect) is counted
Invoked == ops < MaxOps /\ ops' = ops + 1

\* the call in slot s completes: its frame is dropped and the outcome reported
Finish(s, op, topic, outcome, val) ==
  /\ calls' = [calls EXCEPT ![s] = Idle]
  /\ done' = [op |-> op, topic |-> topic, outcome |-> outcome, val |-> val]
\* a call that throws or returns inside its synchronous prefix
Return(op, topic, outcome, val) ==
  /\ done' = [op |-> op, topic |-> topic, outcome |-> outcome, val |-> val]
  /\ UNCHANGED calls
\* the call in slot s moves to its next await
Goto(s, frame) ==
  /\ calls' = [calls EXCEPT ![s] = frame]
  /\ done' = NoneDone

\* ---- initial state: a previous session may have persisted pairings ----
\* a persisted pairing is either past its expiry or still live
LapsedRecord == [expiry |-> StartTime - 1, active |-> TRUE, peerMetadata |-> "none"]
LiveRecord == [expiry |-> StartTime + 2 * FIVE_MINUTES, active |-> FALSE, peerMetadata |-> "none"]
PersistedStores ==
  {<<>>, [t \in {"t1"} |-> LapsedRecord], [t \in {"t1"} |-> LiveRecord],
   [t \in Topics |-> IF t = "t1" THEN LapsedRecord ELSE LiveRecord]}
KeyOf(t) == CHOOSE k \in Keys : HashKey(k) = t

Init ==
  /\ now = StartTime
  /\ initialized = FALSE
  /\ pairings \in PersistedStores
  /\ keychain = [t \in DOMAIN pairings |-> KeyOf(t)]
  /\ subs = DOMAIN pairings
  /\ expirer = [t \in DOMAIN pairings |-> pairings[t].expiry]
  /\ history = <<>>
  /\ published = <<>>
  /\ responded = <<>>
  /\ relayListeners = 0
  /\ expirerListeners = 0
  /\ pingListeners = {}
  /\ timers = {}
  /\ registeredMethods = {}
  /\ valueMethods = {}
  /\ seen = {keychain[t] : t \in DOMAIN keychain} \cup DOMAIN keychain
  /\ nextId = 1
  /\ calls = [s \in Slots |-> Idle]
  /\ ops = 0
  /\ done = NoneDone
  /\ unsubFails = FALSE

\* ---- the clock ----
Tick ==
  /\ now < StartTime + MaxTicks * FIVE_MINUTES
  /\ now' = now + FIVE_MINUTES
  /\ done' = NoneDone
  /\ UNCHANGED <<unsubFails, hooks, world, rpc, listeners, seen, calls, ops>>

\* ---- create(), lines 154-173 (no isInitialized() guard) ----
\* variant: the pairing starts active
NewPairing_Active(expiry) == [expiry |-> expiry, active |-> TRUE, peerMetadata |-> "none"]
\* line 159: const pairing = { topic, expiry, relay, active: false }
NewPairing(expiry) == [expiry |-> expiry, active |-> FALSE, peerMetadata |-> "none"]

\* lines 155-156: a fresh random key; crypto.setSymKey(symKey) derives the topic
Create ==
  /\ FreeSlots # {}
  /\ \E k \in Keys :
       /\ k \notin seen /\ HashKey(k) \notin seen
       /\ seen' = seen \cup {k, HashKey(k)}
       /\ keychain' = MapSet(keychain, HashKey(k), k)
       /\ Goto(FirstFree, [Frame("create", "c_sub", HashKey(k)) EXCEPT !.key = k])
  /\ Invoked
  /\ UNCHANGED <<env, hooks, pairings, subs, expirer, rpc, listeners>>

\* lines 157-168: calcExpiry(FIVE_MINUTES), formatUri, relayer.subscribe(topic)
CreateSubscribe(s) ==
  /\ calls[s].pc = "c_sub"
  /\ subs' = subs \cup {calls[s].topic}
  /\ Goto(s, [calls[s] EXCEPT !.pc = "c_store", !.expiry = CalcExpiry(FIVE_MINUTES)])
  /\ UNCHANGED <<env, hooks, pairings, keychain, expirer, rpc, listeners, seen, ops>>

\* lines 169-172: pairings.set, expirer.set, return { topic, uri }
CreateStore(s) ==
  /\ calls[s].pc = "c_store"
  /\ pairings' = StoreSet(pairings, calls[s].topic, NewPairing(calls[s].expiry))
  /\ expirer' = MapSet(expirer, calls[s].topic, calls[s].expiry)
  /\ Finish(s, "create", calls[s].topic, "ok",
            {FormatUri(calls[s].topic, calls[s].key)})
  /\ UNCHANGED <<env, hooks, keychain, subs, rpc, listeners, seen, ops>>

\* ---- activate({topic}), lines 202-207 ----
\* variant: the expiry is left as it was
ActivateUpdate_KeepExpiry(p, t, expiry) == [p EXCEPT ![t] = [@ EXCEPT !.active = TRUE]]
\* line 205: pairings.update(topic, { active: true, expiry })
ActivateUpdate(p, t, expiry) ==
  [p EXCEPT ![t] = [@ EXCEPT !.active = TRUE, !.expiry = expiry]]

Activate(t) ==
  /\ FreeSlots # {}
  /\ IF ~initialized
       THEN Return("activate", t, "NotInitialized", {}) /\ UNCHANGED pairings
     ELSE IF t \notin StoreKeys
       THEN Return("activate", t, "NoMatchingKey", {}) /\ UNCHANGED pairings
     ELSE /\ pairings' = ActivateUpdate(pairings, t, CalcExpiry(THIRTY_DAYS))
          /\ Goto(FirstFree, [Frame("activate", "a_exp", t) EXCEPT
                                !.expiry = CalcExpiry(THIRTY_DAYS)])
  /\ Invoked
  /\ UNCHANGED <<env, hooks, keychain, subs, expirer, rpc, listeners, seen>>

\* line 206: expirer.set(topic, expiry)
ActivateExpirer(s) ==
  /\ calls[s].pc = "a_exp"
  /\ expirer' = MapSet(expirer, calls[s].topic, calls[s].expiry)
  /\ Finish(s, "activate", calls[s].topic, "ok", {})
  /\ UNCHANGED <<env, hooks, pairings, keychain, subs, rpc, listeners, seen, ops>>

\* ---- pair({uri, activatePairing}), lines 175-200 ----
\* variant: the keychain is not consulted
PairCheck_NoKeychain(uri) ==
  IF ~initialized THEN "NotInitialized"
  ELSE IF ~IsValidUrl(uri) THEN "MissingOrInvalid"
  ELSE IF ParseUri(uri).topic \in StoreKeys THEN "PairingAlreadyExists"
  ELSE "ok"
\* lines 176-186: the checks that throw before anything is written
PairCheck(uri) ==
  IF ~initialized THEN "NotInitialized"
  ELSE IF ~IsValidUrl(uri) THEN "MissingOrInvalid"
  ELSE IF ParseUri(uri).topic \in StoreKeys THEN "PairingAlreadyExists"
  ELSE IF HasKeys(ParseUri(uri).topic) THEN "KeychainAlreadyExists"
  ELSE "ok"

\* lines 188-190: the pairing is stored first
Pair(uri, activatePairing) ==
  /\ FreeSlots # {}
  /\ IF PairCheck(uri) # "ok"
       THEN /\ Return("pair", IF IsValidUrl(uri) THEN ParseUri(uri).topic ELSE NoTopic,
                      PairCheck(uri), {})
            /\ UNCHANGED pairings
       ELSE /\ pairings' = StoreSet(pairings, ParseUri(uri).topic,
                                    NewPairing(CalcExpiry(FIVE_MINUTES)))
            /\ Goto(FirstFree, [Frame("pair", "p_key", ParseUri(uri).topic) EXCEPT
                                  !.key = ParseUri(uri).symKey,
                                  !.expiry = CalcExpiry(FIVE_MINUTES),
                                  !.flag = activatePairing])
  /\ seen' = IF PairCheck(uri) = "ok"
               THEN seen \cup {ParseUri(uri).topic, ParseUri(uri).symKey}
               ELSE seen
  /\ Invoked
  /\ UNCHANGED <<env, hooks, keychain, subs, expirer, rpc, listeners>>

\* line 191: crypto.setSymKey(symKey, topic)
PairSetKey(s) ==
  /\ calls[s].pc = "p_key"
  /\ keychain' = MapSet(keychain, calls[s].topic, calls[s].key)
  /\ Goto(s, [calls[s] EXCEPT !.pc = "p_sub"])
  /\ UNCHANGED <<env, hooks, pairings, subs, expirer, rpc, listeners, seen, ops>>

\* line 192: relayer.subscribe(topic, { relay })
PairSubscribe(s) ==
  /\ calls[s].pc = "p_sub"
  /\ subs' = subs \cup {calls[s].topic}
  /\ Goto(s, [calls[s] EXCEPT !.pc = "p_exp"])
  /\ UNCHANGED <<env, hooks, pairings, keychain, expirer, rpc, listeners, seen, ops>>

\* line 199: return pairing, the object built at line 189
PairResult(f) == {[topic |-> f.topic, expiry |-> f.expiry, active |-> FALSE]}

\* lines 193-199: expirer.set; then activate({topic}) when asked, else return
PairExpirer(s) ==
  /\ calls[s].pc = "p_exp"
  /\ expirer' = MapSet(expirer, calls[s].topic, calls[s].expiry)
  /\ IF ~calls[s].flag
       THEN Finish(s, "pair", calls[s].topic, "ok", PairResult(calls[s]))
            /\ UNCHANGED pairings
     ELSE IF calls[s].topic \notin StoreKeys
       THEN Finish(s, "pair", calls[s].topic, "NoMatchingKey", {})
            /\ UNCHANGED pairings
     ELSE /\ pairings' = ActivateUpdate(pairings, calls[s].topic, CalcExpiry(THIRTY_DAYS))
          /\ calls' = [calls EXCEPT ![s] = [@ EXCEPT !.pc = "p_act",
                                            !.id = CalcExpiry(THIRTY_DAYS)]]
          /\ done' = NoneDone
  /\ UNCHANGED <<env, hooks, keychain, subs, rpc, listeners, seen, ops>>

\* line 206 inside pair, then line 199
PairActivated(s) ==
  /\ calls[s].pc = "p_act"
  /\ expirer' = MapSet(expirer, calls[s].topic, calls[s].id)
  /\ Finish(s, "pair", calls[s].topic, "ok", PairResult(calls[s]))
  /\ UNCHANGED <<env, hooks, pairings, keychain, subs, rpc, listeners, seen, ops>>

\* ---- deletePairing(topic, expirerHasDeleted), lines 445-456 ----
\* variant: the subscription is left
DeletePairingStart_NoUnsubscribe(t) == subs' = subs

\* line 450: await relayer.unsubscribe(topic)
DeletePairingStart(t) == subs' = IF unsubFails THEN subs ELSE subs \ {t}

\* variant: the symmetric key is left in the keychain
DeletePairingRest_KeepKey(t, expirerHasDeleted) ==
  /\ pairings' = StoreDelete(pairings, t)
  /\ keychain' = keychain
  /\ expirer' = IF expirerHasDeleted THEN expirer ELSE MapDel(expirer, t)

\* variant: the expirer entry is never cancelled
DeletePairingRest_KeepEntry(t, expirerHasDeleted) ==
  /\ pairings' = StoreDelete(pairings, t)
  /\ keychain' = MapDel(keychain, t)
  /\ expirer' = expirer

\* variant: expirer.del is called whatever the flag
DeletePairingRest_AlwaysDel(t, expirerHasDeleted) ==
  /\ pairings' = StoreDelete(pairings, t)
  /\ keychain' = MapDel(keychain, t)
  /\ expirer' = MapDel(expirer, t)

\* lines 451-455: store delete, key delete and expirer.del, started together
DeletePairingRest(t, expirerHasDeleted) ==
  /\ pairings' = StoreDelete(pairings, t)
  /\ keychain' = MapDel(keychain, t)
  /\ expirer' = IF expirerHasDeleted THEN expirer ELSE MapDel(expirer, t)

\* the await of line 450 is over. The unsubscribe has completed: the
\* Promise.all of lines 451-455 starts. Or it has thrown: deletePairing throws
\* to its caller, and onPairingDeleteRequest catches and goes to sendError
\* (line 296)
DeleteAll(s) ==
  /\ calls[s].pc = "del_all"
  /\ IF ~unsubFails
       THEN /\ DeletePairingRest(calls[s].topic, calls[s].flag)
            /\ Goto(s, [calls[s] EXCEPT !.pc = "del_ret"])
     ELSE IF calls[s].op = "onRequest" /\ HasKeys(calls[s].topic)
       THEN /\ Goto(s, [calls[s] EXCEPT !.pc = "q_pub", !.after = "RelayError"])
            /\ UNCHANGED <<pairings, keychain, expirer>>
     ELSE /\ Finish(s, calls[s].op, calls[s].topic,
                    IF calls[s].op = "onRequest" THEN "CryptoError" ELSE "RelayError", {})
          /\ UNCHANGED <<pairings, keychain, expirer>>
  /\ UNCHANGED <<env, hooks, subs, rpc, listeners, seen, ops>>

\* deletePairing returns to its caller: disconnect returns (line 253), the
\* validator throws EXPIRED (lines 533-537), the expirer handler emits
\* pairing_expire (line 265)
DeleteReturn(s) ==
  /\ calls[s].pc = "del_ret"
  /\ Finish(s, calls[s].op, calls[s].topic, calls[s].after, {})
  /\ UNCHANGED <<env, hooks, world, rpc, listeners, seen, ops>>

\* variant: a topic that is not stored passes
ValidTopicCheck_NoLookup(t) ==
  IF ~IsValidString(t) THEN "MissingOrInvalid"
  ELSE IF t \in StoreKeys /\ IsExpired(pairings[t].expiry) THEN "Expired"
  ELSE "ok"

\* variant: the expiry of the pairing is not looked at
ValidTopicCheck_NoExpiry(t) ==
  IF ~IsValidString(t) THEN "MissingOrInvalid"
  ELSE IF t \notin StoreKeys THEN "NoMatchingKey"
  ELSE "ok"

\* ---- isValidPairingTopic(topic), lines 516-539 ----
ValidTopicCheck(t) ==
  IF ~IsValidString(t) THEN "MissingOrInvalid"
  ELSE IF t \notin StoreKeys THEN "NoMatchingKey"
  ELSE IF IsExpired(pairings[t].expiry) THEN "Expired"
  ELSE "ok"

\* requests that may still ask formatJsonRpcRequest for an id
PendingSends == Cardinality({s \in Slots : calls[s].pc \in {"g_send", "d_send"}})

\* isInitialized() and isValidPing / isValidDisconnect at the head of ping
\* (lines 210-211) and disconnect (lines 243-244); next is the pc after the await
Validate(op, t, next) ==
  /\ FreeSlots # {}
  /\ IF ~initialized
       THEN Return(op, t, "NotInitialized", {}) /\ UNCHANGED subs
     ELSE IF ValidTopicCheck(t) \in {"MissingOrInvalid", "NoMatchingKey"}
       THEN Return(op, t, ValidTopicCheck(t), {}) /\ UNCHANGED subs
     ELSE IF ValidTopicCheck(t) = "Expired"
       THEN /\ DeletePairingStart(t)
            /\ Goto(FirstFree, [Frame(op, "del_all", t) EXCEPT !.after = "Expired"])
     ELSE /\ nextId + PendingSends <= MaxId
          /\ Goto(FirstFree, Frame(op, next, t))
          /\ UNCHANGED subs
  /\ Invoked
  /\ UNCHANGED <<env, hooks, pairings, keychain, expirer, rpc, listeners, seen>>

\* ---- sendRequest(topic, method, params), lines 403-415 ----
\* formatJsonRpcRequest and crypto.encode: the key of the topic is needed
SendEncode(s, method, next) ==
  IF ~HasKeys(calls[s].topic)
    THEN Finish(s, calls[s].op, calls[s].topic, "CryptoError", {}) /\ UNCHANGED nextId
    ELSE /\ nextId' = nextId + 1
         /\ Goto(s, [calls[s] EXCEPT !.pc = next, !.id = nextId, !.method = method])

\* history.set(topic, payload): an id already recorded is left alone
HistorySet(h, id, t, method) ==
  IF id \in DOMAIN h THEN h
  ELSE [x \in (DOMAIN h) \cup {id} |->
          IF x = id THEN [topic |-> t, method |-> method] ELSE h[x]]

\* variant: no request carries a reason
Request_NoReason(t, method, id) ==
  [topic |-> t, type |-> "request", method |-> method, id |-> id, reason |-> "-"]

\* formatJsonRpcRequest(method, params), line 408; the params of
\* wc_pairingDelete are getSdkError("USER_DISCONNECTED"), line 250
Request(t, method, id) ==
  [topic |-> t, type |-> "request", method |-> method, id |-> id,
   reason |-> IF method = "wc_pairingDelete" THEN "USER_DISCONNECTED" ELSE "-"]

\* lines 411-412: history.set, relayer.publish
SendPublish(s, next) ==
  /\ history' = HistorySet(history, calls[s].id, calls[s].topic, calls[s].method)
  /\ published' = Append(published, Request(calls[s].topic, calls[s].method, calls[s].id))
  /\ Goto(s, [calls[s] EXCEPT !.pc = next])

\* ---- ping({topic}), lines 209-222 ----
Ping(t) ==
  Validate("ping", t, "g_send")

\* lines 213-214: the topic is looked up again after the await
PingSend(s) ==
  /\ calls[s].pc = "g_send"
  /\ IF calls[s].topic \in StoreKeys
       THEN SendEncode(s, "wc_pairingPing", "g_pub")
       ELSE Finish(s, "ping", calls[s].topic, "ok", {}) /\ UNCHANGED nextId
  /\ UNCHANGED <<env, hooks, world, history, published, responded, listeners, seen, ops>>

PingPublish(s) ==
  /\ calls[s].pc = "g_pub"
  /\ SendPublish(s, "g_listen")
  /\ UNCHANGED <<env, hooks, world, nextId, responded, listeners, seen, ops>>

\* lines 215-220: events.once(engineEvent("pairing_ping", id)), await done();
\* createDelayedPromise rejects by itself after FIVE_MINUTES
PingListen(s) ==
  /\ calls[s].pc = "g_listen"
  /\ pingListeners' = pingListeners \cup {calls[s].id}
  /\ Goto(s, [calls[s] EXCEPT !.pc = "g_wait", !.expiry = CalcExpiry(FIVE_MINUTES)])
  /\ UNCHANGED <<env, hooks, world, rpc, relayListeners, expirerListeners, timers, seen, ops>>

\* the timeout of createDelayedPromise; the events.once listener stays
PingTimeout(s) ==
  /\ calls[s].pc = "g_wait"
  /\ IsExpired(calls[s].expiry)
  /\ Finish(s, "ping", calls[s].topic, "Timeout", {})
  /\ UNCHANGED <<env, hooks, world, rpc, listeners, seen, ops>>

\* variant: the listener resolves whatever the response holds
PingOutcome_AlwaysOk(kind) == "ok"

\* lines 216-219: the listener body, run by an emit of pairing_ping:<id>
PingOutcome(kind) == IF kind = "error" THEN "PeerError" ELSE "ok"

\* lines 342-348: the timer of onPairingPingResponse fires and emits
EmitPingResponse ==
  \E tm \in timers :
    /\ timers' = timers \ {tm}
    /\ pingListeners' = pingListeners \ {tm.id}
    /\ IF tm.id \in pingListeners /\ \E s \in Slots : calls[s].pc = "g_wait" /\ calls[s].id = tm.id
         THEN LET s == CHOOSE x \in Slots : calls[x].pc = "g_wait" /\ calls[x].id = tm.id
              IN Finish(s, "ping", calls[s].topic, PingOutcome(tm.kind), {})
         ELSE done' = NoneDone /\ UNCHANGED calls
    /\ UNCHANGED <<env, hooks, world, rpc, relayListeners, expirerListeners, seen, ops>>

\* ---- disconnect({topic}), lines 242-254 ----
Disconnect(t) ==
  Validate("disconnect", t, "d_send")

\* lines 246-251
DisconnectSend(s) ==
  /\ calls[s].pc = "d_send"
  /\ IF calls[s].topic \in StoreKeys
       THEN SendEncode(s, "wc_pairingDelete", "d_pub")
       ELSE Finish(s, "disconnect", calls[s].topic, "ok", {}) /\ UNCHANGED nextId
  /\ UNCHANGED <<env, hooks, world, history, published, responded, listeners, seen, ops>>

DisconnectPublish(s) ==
  /\ calls[s].pc = "d_pub"
  /\ SendPublish(s, "d_del")
  /\ UNCHANGED <<env, hooks, world, nextId, responded, listeners, seen, ops>>

\* line 252: deletePairing(topic)
DisconnectDelete(s) ==
  /\ calls[s].pc = "d_del"
  /\ DeletePairingStart(calls[s].topic)
  /\ Goto(s, [calls[s] EXCEPT !.pc = "del_all", !.after = "ok"])
  /\ UNCHANGED <<env, hooks, pairings, keychain, expirer, rpc, listeners, seen, ops>>

\* ---- register, updateExpiry, updateMetadata, getPairings ----
\* lines 149-152: register is the function held by the memoized value (lines
\* 563-579), made in the render that computed the memo: the registeredMethods
\* it spreads are those of that render
Register(methods) ==
  /\ IF ~initialized
       THEN Return("register", NoTopic, "NotInitialized", {}) /\ UNCHANGED registeredMethods
       ELSE /\ registeredMethods' = valueMethods \cup methods
            /\ Return("register", NoTopic, "ok", {})
  /\ Invoked
  /\ UNCHANGED <<env, initialized, valueMethods, world, rpc, listeners, seen>>

\* setRelayerRegion (lines 125-127) is a dependency of the memo of lines
\* 563-579: the value is computed again, over the functions of the new render
SetRelayerRegion ==
  /\ initialized
  /\ valueMethods' = registeredMethods
  /\ done' = NoneDone
  /\ Invoked
  /\ UNCHANGED <<env, initialized, registeredMethods, world, rpc, listeners, seen, calls>>

\* pairings.update(topic, update) on a stored topic
StoreUpdateExpiry(p, t, expiry) == [p EXCEPT ![t] = [@ EXCEPT !.expiry = expiry]]
StoreUpdateMetadata(p, t, metadata) == [p EXCEPT ![t] = [@ EXCEPT !.peerMetadata = metadata]]

\* lines 224-227
UpdateExpiry(t, expiry) ==
  /\ IF ~initialized
       THEN Return("updateExpiry", t, "NotInitialized", {}) /\ UNCHANGED pairings
     ELSE IF t \notin StoreKeys
       THEN Return("updateExpiry", t, "NoMatchingKey", {}) /\ UNCHANGED pairings
     ELSE /\ pairings' = StoreUpdateExpiry(pairings, t, expiry)
          /\ Return("updateExpiry", t, "ok", {})
  /\ Invoked
  /\ UNCHANGED <<env, hooks, keychain, subs, expirer, rpc, listeners, seen>>

\* lines 229-235
UpdateMetadata(t, metadata) ==
  /\ IF ~initialized
       THEN Return("updateMetadata", t, "NotInitialized", {}) /\ UNCHANGED pairings
     ELSE IF t \notin StoreKeys
       THEN Return("updateMetadata", t, "NoMatchingKey", {}) /\ UNCHANGED pairings
     ELSE /\ pairings' = StoreUpdateMetadata(pairings, t, metadata)
          /\ Return("updateMetadata", t, "ok", {})
  /\ Invoked
  /\ UNCHANGED <<env, hooks, keychain, subs, expirer, rpc, listeners, seen>>

\* lines 237-240
GetPairings ==
  /\ IF ~initialized
       THEN Return("getPairings", NoTopic, "NotInitialized", {})
       ELSE Return("getPairings", NoTopic, "ok", StoreValues)
  /\ Invoked
  /\ UNCHANGED <<env, hooks, world, rpc, listeners, seen>>

\* ---- init(), lines 138-147, and cleanup(), lines 465-472 ----
\* line 139: the guard; line 140: await pairings.init()
InitStart ==
  IF initialized
    THEN Return("init", NoTopic, "ok", {})
    ELSE Goto(FirstFree, Frame("init", "i_clean", NoTopic))

\* init() invoked once more: by a re-run of the mount effect that still holds
\* the initialized = false of its render, or by a direct call
InitCall ==
  /\ FreeSlots # {}
  /\ InitStart
  /\ Invoked
  /\ UNCHANGED <<env, hooks, world, rpc, listeners, seen>>

\* the mount effect, lines 547-552: init() is called, not awaited, and
\* setInitialized(true) follows at once
MountEffect ==
  /\ FreeSlots # {}
  /\ ~initialized
  /\ InitStart
  /\ initialized' = TRUE
  /\ Invoked
  /\ UNCHANGED <<env, registeredMethods, valueMethods, world, rpc, listeners, seen>>

\* lines 466-468: the pairings cleanup() deletes
ExpiredPairings == {t \in StoreKeys : IsExpired(pairings[t].expiry)}

\* lines 469-471: every deletePairing(topic) starts, each with its unsubscribe
\* when an unsubscribe throws, Promise.all and with it init() reject
InitCleanup(s) ==
  /\ calls[s].pc = "i_clean"
  /\ IF unsubFails /\ ExpiredPairings # {}
       THEN /\ Finish(s, "init", NoTopic, "RelayError", {})
            /\ UNCHANGED subs
       ELSE /\ subs' = subs \ ExpiredPairings
            /\ Goto(s, [calls[s] EXCEPT !.pc = "i_del", !.tset = ExpiredPairings,
                                        !.swept = ExpiredPairings, !.expiry = now])
  /\ UNCHANGED <<env, hooks, pairings, keychain, expirer, rpc, listeners, seen, ops>>

\* one of the deletePairing calls of cleanup() goes on after its unsubscribe
InitDeleteOne(s) ==
  /\ calls[s].pc = "i_del"
  /\ \E t \in calls[s].tset :
       /\ DeletePairingRest(t, FALSE)
       /\ Goto(s, [calls[s] EXCEPT !.tset = @ \ {t}])
  /\ UNCHANGED <<env, hooks, subs, rpc, listeners, seen, ops>>

\* lines 142-144: registerRelayerEvents(), registerExpirerEvents(), setInitialized(true)
InitRegister(s) ==
  /\ calls[s].pc = "i_del"
  /\ calls[s].tset = {}
  /\ relayListeners' = relayListeners + 1
  /\ expirerListeners' = expirerListeners + 1
  /\ initialized' = TRUE
  /\ Finish(s, "init", NoTopic, "ok", calls[s].swept)
  /\ UNCHANGED <<env, registeredMethods, valueMethods, world, rpc, pingListeners, timers, seen, ops>>

\* ---- relayer message listener, lines 375-400: inbound responses ----
\* the peer answers a request it was sent, once, on the topic of the request
Answerable == {i \in 1..Len(published) :
                 published[i].type = "request" /\ published[i].id \notin DOMAIN responded}

\* lines 379-396: crypto.decode(topic, message) needs the key of the topic;
\* the payload is a response: history.resolve(payload)
RelayResponse(m, kind) ==
  /\ relayListeners > 0
  /\ m.topic \in subs
  /\ FreeSlots # {}
  /\ responded' = MapSet(responded, m.id, kind)
  /\ IF ~HasKeys(m.topic)
       THEN Return("onMessage", m.topic, "CryptoError", {})
       ELSE Goto(FirstFree, [Frame("onMessage", "m_res", m.topic) EXCEPT
                               !.id = m.id, !.after = kind])
  /\ UNCHANGED <<env, hooks, world, history, published, nextId, listeners, seen, ops>>

\* lines 361-363: history.get(topic, id) throws when it has no such record
ResponseLookup(s) ==
  /\ calls[s].pc = "m_res"
  /\ IF calls[s].id \in DOMAIN history /\ history[calls[s].id].topic = calls[s].topic
       THEN Goto(s, [calls[s] EXCEPT !.pc = "m_get",
                                     !.method = history[calls[s].id].method])
       ELSE Finish(s, "onMessage", calls[s].topic, "NoMatchingKey", {})
  /\ UNCHANGED <<env, hooks, world, rpc, listeners, seen, ops>>

\* lines 365-372 and 339-348: a wc_pairingPing response arms the emit timer
ResponseDispatch(s) ==
  /\ calls[s].pc = "m_get"
  /\ timers' = IF calls[s].topic \in StoreKeys /\ calls[s].method = "wc_pairingPing"
                 THEN timers \cup {[id |-> calls[s].id, kind |-> calls[s].after]}
                 ELSE timers
  /\ Finish(s, "onMessage", calls[s].topic, "ok", {})
  /\ UNCHANGED <<env, hooks, world, rpc, relayListeners, expirerListeners,
                 pingListeners, seen, ops>>

\* ---- relayer "message" listener, requests: lines 379-393 and 273-333 ----
\* methods a peer may put in a request
RequestMethods == {"wc_pairingPing", "wc_pairingDelete", "wc_foo"}

\* registeredMethods of onUnknownRpcMethodRequest (line 308): the listener of
\* lines 375-400 is a useCallback with no dependency, it stays the one of the
\* first render and calls the handlers of that render, whose registeredMethods
\* is the initial [] of line 124
DispatcherMethods == {}

\* variant: the response goes out under an id of its own
Response_OtherId(t, kind, id, reason) ==
  [topic |-> t, type |-> kind, method |-> "-", id |-> 0, reason |-> reason]

\* formatJsonRpcResult / formatJsonRpcError (lines 422, 433): the response
\* carries the id of the request
Response(t, kind, id, reason) ==
  [topic |-> t, type |-> kind, method |-> "-", id |-> id, reason |-> reason]

\* a request of the peer arrives, under an id of the peer's choosing;
\* crypto.decode(topic, message) needs the key of the topic
RelayRequest(t, method) ==
  /\ relayListeners > 0
  /\ t \in subs
  /\ FreeSlots # {}
  /\ IF ~HasKeys(t)
       THEN Return("onRequest", t, "CryptoError", {})
       ELSE Goto(FirstFree, [Frame("onRequest", "q_req", t) EXCEPT
                               !.id = 100 + ops, !.method = method])
  /\ Invoked
  /\ UNCHANGED <<env, hooks, world, rpc, listeners, seen>>

\* isValidPing / isValidDisconnect are called without await (lines 279, 292):
\* a failed validation rejects a promise nobody holds, and on an expired
\* pairing the validator's deletePairing runs beside the handler
FloatingDelete(f) ==
  /\ f.topic \in StoreKeys
  /\ f.method \in {"wc_pairingPing", "wc_pairingDelete"}
  /\ ValidTopicCheck(f.topic) = "Expired"

\* the handler's run up to its first await: the frame it waits in, or Idle
\* with the outcome it ended on
HandlerStep(f) ==
  IF f.topic \notin StoreKeys
    THEN [frame |-> Idle, outcome |-> "ignored"]                \* line 323
  ELSE IF f.method = "wc_pairingDelete"
    THEN [frame |-> [f EXCEPT !.pc = "del_all", !.after = "pairing_delete"],
          outcome |-> "-"]                                      \* line 293
  ELSE IF f.method # "wc_pairingPing" /\ f.method \in DispatcherMethods
    THEN [frame |-> Idle, outcome |-> "ignored"]                \* line 308
  ELSE IF ~HasKeys(f.topic)
    THEN [frame |-> Idle, outcome |-> "CryptoError"]            \* crypto.encode
  ELSE [frame |-> [f EXCEPT !.pc = "q_pub",
                            !.after = IF f.method = "wc_pairingPing"
                                        THEN "result" ELSE "error"],
        outcome |-> "-"]                                        \* lines 280, 310

\* lines 392-393: history.set(topic, payload), then the dispatch of lines
\* 317-333 and the handler up to its first await
RequestDispatch(s) ==
  LET f == calls[s]
      h == HandlerStep(f)
  IN /\ f.pc = "q_req"
     /\ FloatingDelete(f) => FreeSlots # {}
     /\ history' = HistorySet(history, f.id, f.topic, f.method)
     /\ IF FloatingDelete(f) \/ h.frame.pc = "del_all"
          THEN DeletePairingStart(f.topic)
          ELSE UNCHANGED subs
     /\ calls' = IF FloatingDelete(f)
                   THEN [calls EXCEPT
                           ![s] = h.frame,
                           ![FirstFree] = [Frame("validation", "del_all", f.topic)
                                             EXCEPT !.after = "Expired"]]
                   ELSE [calls EXCEPT ![s] = h.frame]
     /\ done' = IF h.frame = Idle
                  THEN [op |-> "onRequest", topic |-> f.topic,
                        outcome |-> h.outcome, val |-> {f.id}]
                  ELSE NoneDone
     /\ UNCHANGED <<env, hooks, pairings, keychain, expirer, published, nextId,
                    responded, listeners, seen, ops>>

\* lines 423-428 and 434-441: history.get(topic, id), relayer.publish
RequestPublish(s) ==
  LET f == calls[s] IN
  /\ f.pc = "q_pub"
  /\ IF f.id \in DOMAIN history /\ history[f.id].topic = f.topic
       THEN /\ published' = Append(published,
                 Response(f.topic, IF f.after = "result" THEN "result" ELSE "error", f.id,
                          IF f.after = "error" THEN "WC_METHOD_UNSUPPORTED"
                          ELSE IF f.after = "result" THEN "-" ELSE f.after))
            /\ Goto(s, [f EXCEPT !.pc = "q_done"])
       ELSE /\ Finish(s, "onRequest", f.topic, "NoMatchingKey", {f.id})
            /\ UNCHANGED published
  /\ UNCHANGED <<env, hooks, world, history, nextId, responded, listeners, seen, ops>>

\* lines 429 and 442: history.resolve(payload); then the handler emits
\* pairing_ping (line 281) or logs the error (line 311)
RequestDone(s) ==
  LET f == calls[s] IN
  /\ f.pc = "q_done"
  /\ Finish(s, "onRequest", f.topic,
            IF f.after = "result" THEN "pairing_ping"
            ELSE IF f.after = "error" THEN "unsupported" ELSE f.after, {f.id})
  /\ UNCHANGED <<env, hooks, world, rpc, listeners, seen, ops>>

\* variant: the handler does not look the topic up in the store
ExpiredTopicStored_Any(t) == TRUE

\* line 262: pairings.keys.includes(topic)
ExpiredTopicStored(t) == t \in StoreKeys

\* ---- expirer "expired" listener, lines 257-270 ----
\* the handler starts deletePairing(topic, true) when the topic is stored
OnExpired(t) ==
  IF expirerListeners > 0 /\ ExpiredTopicStored(t)
    THEN /\ DeletePairingStart(t)
         /\ Goto(FirstFree, [Frame("onExpired", "del_all", t) EXCEPT
                               !.flag = TRUE, !.after = "ok"])
    ELSE /\ done' = NoneDone
         /\ UNCHANGED <<subs, calls>>

\* the expirer drops an entry whose time has come and emits
ExpirerEvent(t) ==
  /\ t \in DOMAIN expirer
  /\ IsExpired(expirer[t])
  /\ FreeSlots # {}
  /\ expirer' = MapDel(expirer, t)
  /\ OnExpired(t)
  /\ UNCHANGED <<env, hooks, pairings, keychain, rpc, listeners, seen, ops>>

\* the expirer of the core is shared: an entry of another user of it (a
\* session) comes due, under a topic that is not a pairing's
OtherTopic == "s1"
ForeignExpirerEvent ==
  /\ FreeSlots # {}
  /\ OnExpired(OtherTopic)
  /\ Invoked
  /\ UNCHANGED <<env, hooks, pairings, keychain, expirer, rpc, listeners, seen>>

\* ---- specifications ----
ExpiryInputs == {StartTime - 1, StartTime + THIRTY_DAYS}
RegisterInputs == {{"wc_foo"}, {"wc_bar"}}

Next ==
  \/ Create
  \/ \E uri \in Uris, a \in BOOLEAN : Pair(uri, a)
  \/ \E t \in Topics : Activate(t)
  \/ \E t \in Topics : Ping(t)
  \/ \E t \in Topics : Disconnect(t)
  \/ \E m \in RegisterInputs : Register(m)
  \/ SetRelayerRegion
  \/ \E t \in Topics, e \in ExpiryInputs : UpdateExpiry(t, e)
  \/ UpdateMetadata("t1", "m1")
  \/ GetPairings
  \/ MountEffect
  \/ \E s \in Slots : CreateSubscribe(s)
  \/ \E s \in Slots : CreateStore(s)
  \/ \E s \in Slots : PairSetKey(s)
  \/ \E s \in Slots : PairSubscribe(s)
  \/ \E s \in Slots : PairExpirer(s)
  \/ \E s \in Slots : PairActivated(s)
  \/ \E s \in Slots : ActivateExpirer(s)
  \/ \E s \in Slots : DeleteAll(s)
  \/ \E s \in Slots : DeleteReturn(s)
  \/ \E s \in Slots : PingSend(s)
  \/ \E s \in Slots : PingPublish(s)
  \/ \E s \in Slots : PingListen(s)
  \/ \E s \in Slots : PingTimeout(s)
  \/ \E s \in Slots : DisconnectSend(s)
  \/ \E s \in Slots : DisconnectPublish(s)
  \/ \E s \in Slots : DisconnectDelete(s)
  \/ \E s \in Slots : InitCleanup(s)
  \/ \E s \in Slots : InitDeleteOne(s)
  \/ \E s \in Slots : InitRegister(s)
  \/ \E s \in Slots : ResponseLookup(s)
  \/ \E s \in Slots : ResponseDispatch(s)
  \/ \E s \in Slots : RequestDispatch(s)
  \/ \E s \in Slots : RequestPublish(s)
  \/ \E s \in Slots : RequestDone(s)
  \/ Tick
  \/ EmitPingResponse
  \/ \E i \in Answerable, kind \in {"result", "error"} : RelayResponse(published[i], kind)
  \/ \E t \in Topics : ExpirerEvent(t)
  \/ \E t \in Topics, m \in RequestMethods : RelayRequest(t, m)
  \/ ForeignExpirerEvent

Spec == Init /\ [][Next]_vars

\* one call at a time: an operation or an event handler starts, and time
\* passes, only while no other call is running (a ping that waits for its
\* response is not running)
SeqNext ==
  \/ Quiet /\ Create
  \/ Quiet /\ \E uri \in Uris, a \in BOOLEAN : Pair(uri, a)
  \/ Quiet /\ \E t \in Topics : Activate(t)
  \/ Quiet /\ \E t \in Topics : Ping(t)
  \/ Quiet /\ \E t \in Topics : Disconnect(t)
  \/ Quiet /\ \E m \in RegisterInputs : Register(m)
  \/ Quiet /\ SetRelayerRegion
  \/ Quiet /\ \E t \in Topics, e \in ExpiryInputs : UpdateExpiry(t, e)
  \/ Quiet /\ UpdateMetadata("t1", "m1")
  \/ Quiet /\ GetPairings
  \/ Quiet /\ MountEffect
  \/ \E s \in Slots : CreateSubscribe(s)
  \/ \E s \in Slots : CreateStore(s)
  \/ \E s \in Slots : PairSetKey(s)
  \/ \E s \in Slots : PairSubscribe(s)
  \/ \E s \in Slots : PairExpirer(s)
  \/ \E s \in Slots : PairActivated(s)
  \/ \E s \in Slots : ActivateExpirer(s)
  \/ \E s \in Slots : DeleteAll(s)
  \/ \E s \in Slots : DeleteReturn(s)
  \/ \E s \in Slots : PingSend(s)
  \/ \E s \in Slots : PingPublish(s)
  \/ \E s \in Slots : PingListen(s)
  \/ \E s \in Slots : PingTimeout(s)
  \/ \E s \in Slots : DisconnectSend(s)
  \/ \E s \in Slots : DisconnectPublish(s)
  \/ \E s \in Slots : DisconnectDelete(s)
  \/ \E s \in Slots : InitCleanup(s)
  \/ \E s \in Slots : InitDeleteOne(s)
  \/ \E s \in Slots : InitRegister(s)
  \/ \E s \in Slots : ResponseLookup(s)
  \/ \E s \in Slots : ResponseDispatch(s)
  \/ \E s \in Slots : RequestDispatch(s)
  \/ \E s \in Slots : RequestPublish(s)
  \/ \E s \in Slots : RequestDone(s)
  \/ Quiet /\ Tick
  \/ Quiet /\ EmitPingResponse
  \/ Quiet /\ \E i \in Answerable, kind \in {"result", "error"} :
                RelayResponse(published[i], kind)
  \/ Quiet /\ \E t \in Topics : ExpirerEvent(t)
  \/ Quiet /\ \E t \in Topics, m \in RequestMethods : RelayRequest(t, m)
  \/ Quiet /\ ForeignExpirerEvent

SeqSpec == Init /\ [][SeqNext]_vars

\* relayer.unsubscribe starts or stops throwing; a call of it that is under
\* way ends as it began
UnsubscribeFault ==
  /\ \A s \in Slots : calls[s].pc # "del_all"
  /\ unsubFails' = ~unsubFails
  /\ done' = NoneDone
  /\ UNCHANGED <<now, hooks, world, rpc, listeners, seen, calls, ops>>

\* relayer.subscribe throws, in create (line 168) or in pair (line 192): the
\* call rejects where it stands, neither has a try or a catch
SubscribeFails(s) ==
  /\ calls[s].pc \in {"c_sub", "p_sub"}
  /\ Finish(s, calls[s].op, calls[s].topic, "RelayError", {})
  /\ UNCHANGED <<env, hooks, world, rpc, listeners, seen, ops>>

\* calls one at a time, over a relay whose subscribe and unsubscribe may throw
FaultNext ==
  \/ SeqNext
  \/ Quiet /\ UnsubscribeFault
  \/ \E s \in Slots : SubscribeFails(s)
FaultSpec == Init /\ [][FaultNext]_vars

\* init() may be invoked any number of times
InitNext == Next \/ InitCall
InitSpec == Init /\ [][InitNext]_vars

\* ======================= properties =======================

\* ---- create ----

\* C1: a create() that succeeds returns a topic that was not a key of the
\* store when it was called nor at any time before it stored the pairing; at
\* its return the store holds that topic with active = false and the expiry
\* computed as now + FIVE_MINUTES, the relay is subscribed to the topic and
\* the expirer holds an entry for the topic with the same expiry
C1_CreatePostcondition ==
  [][\A s \in Slots :
       /\ (calls[s] = Idle /\ calls'[s].op = "create") =>
            calls'[s].topic \notin StoreKeys
       /\ (calls[s].pc = "c_sub" /\ calls'[s].pc = "c_store") =>
            calls'[s].expiry = now + FIVE_MINUTES
       /\ (calls[s].pc = "c_store" /\ calls'[s] = Idle) =>
            LET t == calls[s].topic IN
              /\ done' = [op |-> "create", topic |-> t, outcome |-> "ok",
                          val |-> {FormatUri(t, calls[s].key)}]
              /\ t \notin StoreKeys
              /\ t \in DOMAIN pairings'
              /\ pairings'[t].active = FALSE
              /\ pairings'[t].expiry = calls[s].expiry
              /\ t \in subs'
              /\ t \in DOMAIN expirer'
              /\ expirer'[t] = pairings'[t].expiry]_vars

\* a create() has just returned its topic and uri
C1_Witness ==
  /\ done.op = "create" /\ done.outcome = "ok"
  /\ done.topic \in StoreKeys /\ ~pairings[done.topic].active
  /\ done.topic \in subs /\ done.topic \in DOMAIN expirer

\* ---- pair ----

\* C2: on an initialized engine, pair() with a valid URI whose topic is
\* stored fails with PairingAlreadyExists; with a topic that is not stored
\* but has a key in the keychain it fails with KeychainAlreadyExists; in both
\* cases store, keychain, subscriptions, expirer and published messages are
\* what they were and no call is left running
C2_PairRejectsExisting ==
  [][\A uri \in Uris, a \in BOOLEAN :
       (initialized /\ IsValidUrl(uri) /\ Pair(uri, a)) =>
         /\ ParseUri(uri).topic \in StoreKeys =>
              /\ done'.op = "pair" /\ done'.outcome = "PairingAlreadyExists"
              /\ UNCHANGED <<world, published, history, calls>>
         /\ (ParseUri(uri).topic \notin StoreKeys /\ HasKeys(ParseUri(uri).topic)) =>
              /\ done'.op = "pair" /\ done'.outcome = "KeychainAlreadyExists"
              /\ UNCHANGED <<world, published, history, calls>>]_vars

\* a pair() was refused because the keychain holds a key for a topic that
\* the store does not hold
C2_Witness ==
  /\ done.op = "pair" /\ done.outcome = "KeychainAlreadyExists"
  /\ done.topic \notin StoreKeys /\ HasKeys(done.topic)

\* C3: when no other call runs meanwhile, a pair() that succeeds on a fresh
\* topic leaves the key of the URI in the keychain under the topic, the
\* pairing in the store, the relay subscribed and an expirer entry; without
\* activatePairing the pairing is inactive and expires FIVE_MINUTES from the
\* call; with activatePairing it is active, expires THIRTY_DAYS from the call
\* and the expirer entry is set to that expiry
C3_PairPostcondition ==
  [][/\ \A uri \in Uris, a \in BOOLEAN :
          (Pair(uri, a) /\ PairCheck(uri) = "ok") =>
            /\ calls'[FirstFree].topic = ParseUri(uri).topic
            /\ calls'[FirstFree].key = ParseUri(uri).symKey
            /\ calls'[FirstFree].flag = a
     /\ \A s \in Slots :
          (calls[s].op = "pair" /\ calls'[s] = Idle /\ done'.outcome = "ok") =>
            LET t == calls[s].topic IN
              /\ t \in DOMAIN keychain' /\ keychain'[t] = calls[s].key
              /\ t \in DOMAIN pairings'
              /\ t \in subs'
              /\ t \in DOMAIN expirer'
              /\ expirer'[t] = pairings'[t].expiry
              /\ IF calls[s].flag
                   THEN /\ pairings'[t].active
                        /\ pairings'[t].expiry = now' + THIRTY_DAYS
                   ELSE /\ ~pairings'[t].active
                        /\ pairings'[t].expiry = now' + FIVE_MINUTES]_vars

\* a pair() with activatePairing has just returned
C3_Witness ==
  /\ done.op = "pair" /\ done.outcome = "ok"
  /\ done.topic \in StoreKeys /\ pairings[done.topic].active
  /\ done.topic \in DOMAIN expirer /\ expirer[done.topic] = now + THIRTY_DAYS

\* ---- activate ----

\* C4: when no other call runs meanwhile, activate() on a stored pairing
\* that is inactive with an expiry of at most now + FIVE_MINUTES sets active
\* to true and the expiry to now + THIRTY_DAYS, which is later than the
\* expiry it had, and at its return the expirer entry of the topic is that
\* new expiry
C4_ActivateFreshPairing ==
  [][/\ \A t \in Topics :
          (/\ Activate(t) /\ initialized /\ t \in StoreKeys
           /\ ~pairings[t].active /\ pairings[t].expiry <= now + FIVE_MINUTES) =>
            /\ pairings'[t].active
            /\ pairings'[t].expiry = now + THIRTY_DAYS
            /\ pairings'[t].expiry > pairings[t].expiry
     /\ \A s \in Slots :
          (calls[s].op = "activate" /\ calls'[s] = Idle) =>
            LET t == calls[s].topic IN
              /\ done'.op = "activate" /\ done'.outcome = "ok"
              /\ pairings'[t].active
              /\ pairings'[t].expiry = now' + THIRTY_DAYS
              /\ expirer'[t] = pairings'[t].expiry]_vars

\* activate() has updated a pairing whose expirer entry is still the one of
\* its creation, FIVE_MINUTES from now
C4_Witness ==
  \E s \in Slots :
    /\ calls[s].op = "activate" /\ calls[s].pc = "a_exp"
    /\ pairings[calls[s].topic].active
    /\ pairings[calls[s].topic].expiry = now + THIRTY_DAYS
    /\ expirer[calls[s].topic] = now + FIVE_MINUTES

\* ---- init ----
\* C5: when no other call runs meanwhile, init() removes no pairing that is
\* not expired and changes none; its sweep covers every pairing whose expiry
\* is strictly in the past; when it completes, no stored pairing (what
\* getPairings() returns) has an expiry strictly in the past, and every swept
\* topic is gone from the store, the keychain, the subscriptions and the
\* expirer
C5_InitSweepsExpired ==
  [][\A s \in Slots : calls[s].op = "init" =>
       /\ \A t \in StoreKeys :
            ~IsExpired(pairings[t].expiry) =>
              t \in DOMAIN pairings' /\ pairings'[t] = pairings[t]
       /\ (calls[s].pc = "i_clean" /\ calls'[s].pc = "i_del") =>
            {t \in StoreKeys : pairings[t].expiry < now} \subseteq calls'[s].swept
       /\ calls'[s] = Idle =>
            /\ done'.op = "init" /\ done'.outcome = "ok"
            /\ \A t \in DOMAIN pairings' : ~(pairings'[t].expiry < now')
            /\ \A t \in calls[s].swept :
                 /\ t \notin DOMAIN pairings'
                 /\ t \notin DOMAIN keychain'
                 /\ t \notin subs'
                 /\ t \notin DOMAIN expirer']_vars

\* init() has completed after sweeping an expired pairing and keeping a
\* live one
C5_Witness ==
  /\ done.op = "init" /\ done.outcome = "ok"
  /\ done.val # {}
  /\ StoreKeys # {}

\* C6: however init() is invoked, the relay message listener and the expirer
\* listener are each registered at most once
C6_ListenersRegisteredOnce ==
  relayListeners <= 1 /\ expirerListeners <= 1

\* ---- isInitialized ----
PublicOps == {"create", "pair", "activate", "register", "updateExpiry",
              "updateMetadata", "getPairings", "ping", "disconnect"}

\* C7: while the engine is not initialized, no step sets a key, subscribes,
\* stores, schedules or publishes, and a public operation other than init
\* that completes does so with NotInitialized
C7_UninitializedOpsFail ==
  [][~initialized =>
       /\ DOMAIN keychain' \subseteq DOMAIN keychain
       /\ subs' \subseteq subs
       /\ DOMAIN pairings' \subseteq DOMAIN pairings
       /\ DOMAIN expirer' \subseteq DOMAIN expirer
       /\ published' = published
       /\ done'.op \in PublicOps => done'.outcome = "NotInitialized"]_vars

\* ---- disconnect ----
\* C8: when no other call runs meanwhile, a disconnect() that has returned
\* without error leaves no store record, no symmetric key, no relay
\* subscription and no expirer entry for its topic
C8_DisconnectRemovesAll ==
  (done.op = "disconnect" /\ done.outcome = "ok") =>
    /\ done.topic \notin StoreKeys
    /\ ~HasKeys(done.topic)
    /\ done.topic \notin subs
    /\ done.topic \notin DOMAIN expirer

\* a disconnect() has returned after publishing its wc_pairingDelete
C8_Witness ==
  /\ done.op = "disconnect" /\ done.outcome = "ok"
  /\ \E i \in 1..Len(published) :
       published[i].topic = done.topic /\ published[i].method = "wc_pairingDelete"

\* a disconnect of the topic has published its request and returned, and the
\* topic has not been stored again
Disconnected(t) ==
  /\ \E i \in 1..Len(published) :
       published[i].topic = t /\ published[i].method = "wc_pairingDelete"
  /\ \A s \in Slots : ~(calls[s].op = "disconnect" /\ calls[s].topic = t)
  /\ t \notin StoreKeys

\* C9 as stated: a disconnect() of a topic whose disconnect has completed
\* raises no error, publishes nothing and changes nothing
C9_RepeatedDisconnectNoError ==
  [][\A t \in Topics :
       (Disconnected(t) /\ Disconnect(t)) =>
         /\ done'.outcome \in {"ok", "-"}
         /\ published' = published
         /\ UNCHANGED world]_vars

\* C9 amended: a disconnect() of a topic whose disconnect has completed
\* fails with NoMatchingKey, publishes nothing, starts no call and leaves
\* store, keychain, subscriptions and expirer as they were
C9_RepeatedDisconnectFails ==
  [][\A t \in Topics :
       (Disconnected(t) /\ Disconnect(t)) =>
         /\ done'.op = "disconnect" /\ done'.outcome = "NoMatchingKey"
         /\ published' = published
         /\ UNCHANGED <<world, history, calls>>]_vars

\* a second disconnect() of a disconnected topic has just failed
C9_Witness ==
  /\ done.op = "disconnect" /\ done.outcome = "NoMatchingKey"
  /\ Disconnected(done.topic)

\* ---- ping ----
\* C10: a ping that waits on request id i returns successfully only when the
\* peer's response to id i was a result, fails with the peer's error only
\* when the peer's response to id i was an error, and otherwise ends only by
\* its timeout; a response to another id does not end it
C10_PingCorrelation ==
  [][\A s \in Slots :
       (calls[s].pc = "g_wait" /\ calls'[s] # calls[s]) =>
         /\ calls'[s] = Idle
         /\ done'.op = "ping" /\ done'.topic = calls[s].topic
         /\ done'.outcome \in {"ok", "PeerError", "Timeout"}
         /\ done'.outcome = "ok" =>
              /\ calls[s].id \in DOMAIN responded
              /\ responded[calls[s].id] = "result"
              /\ [id |-> calls[s].id, kind |-> "result"] \in timers \ timers'
         /\ done'.outcome = "PeerError" =>
              /\ calls[s].id \in DOMAIN responded
              /\ responded[calls[s].id] = "error"
              /\ [id |-> calls[s].id, kind |-> "error"] \in timers \ timers'
         /\ done'.outcome = "Timeout" => now >= calls[s].expiry]_vars

\* a ping has just failed with the error the peer sent for its request
C10_Witness ==
  /\ done.op = "ping" /\ done.outcome = "PeerError"
  /\ \E i \in DOMAIN responded : responded[i] = "error" /\ i \notin pingListeners

\* a ping still waits although the response to another request has been
\* handled and emitted
C10_OtherIdWitness ==
  \E s \in Slots :
    /\ calls[s].pc = "g_wait"
    /\ calls[s].id \notin DOMAIN responded
    /\ \E i \in DOMAIN responded : i # calls[s].id /\ i \in DOMAIN history
                                   /\ history[i].method = "wc_pairingPing"
    /\ timers = {}

\* ---- ping on a topic that is not stored ----
\* C11 as stated: on an initialized engine, a ping() of a well-formed topic
\* that is not a key of the store raises no error, publishes nothing and
\* changes nothing
C11_PingMissingTopicNoError ==
  [][\A t \in Topics :
       (initialized /\ t \notin StoreKeys /\ Ping(t)) =>
         /\ done'.outcome \in {"ok", "-"}
         /\ published' = published
         /\ UNCHANGED world]_vars

\* C11 amended: on an initialized engine, a ping() of a well-formed topic
\* that is not a key of the store fails with NoMatchingKey, publishes
\* nothing, starts no call and changes neither store, keychain, subscriptions
\* nor expirer
C11_PingMissingTopicFails ==
  [][\A t \in Topics :
       (initialized /\ t \notin StoreKeys /\ Ping(t)) =>
         /\ done'.op = "ping" /\ done'.outcome = "NoMatchingKey"
         /\ published' = published
         /\ UNCHANGED <<world, history, calls, pingListeners>>]_vars

\* a ping() of a topic that is not stored has just failed
C11_Witness ==
  /\ initialized
  /\ done.op = "ping" /\ done.outcome = "NoMatchingKey"
  /\ done.topic \in Topics /\ done.topic \notin StoreKeys

\* C12: a correlation listener is registered only for a ping that still waits:
\* once a ping has completed, by a response or by its timeout, no listener
\* for its request id is left
C12_NoListenerLeft ==
  \A i \in pingListeners :
    \E s \in Slots : calls[s].op = "ping" /\ calls[s].pc = "g_wait" /\ calls[s].id = i

\* ---- inbound requests and registered methods ----

\* C13: an inbound request on a stored topic whose method is neither
\* wc_pairingPing nor wc_pairingDelete is answered with an error response iff
\* its method is not in the registered-methods set; the response that is
\* published carries the method-unsupported reason and the id of the request;
\* in both cases store, keychain, subscriptions and expirer are left alone
C13_UnknownMethodRequest ==
  [][\A s \in Slots :
       LET f == calls[s] IN
       /\ (/\ RequestDispatch(s)
           /\ f.topic \in StoreKeys
           /\ f.method \notin {"wc_pairingPing", "wc_pairingDelete"}) =>
            /\ (calls'[s].pc = "q_pub" /\ calls'[s].after = "error")
                 <=> (f.method \notin registeredMethods)
            /\ UNCHANGED world
       /\ (RequestPublish(s) /\ f.after = "error" /\ published' # published) =>
            /\ published' = Append(published,
                 Response(f.topic, "error", f.id, "WC_METHOD_UNSUPPORTED"))
            /\ UNCHANGED world]_vars

\* C14: a register({methods}) on an initialized engine leaves the
\* registered-methods set equal to what it was joined with the methods of the
\* call, so that no earlier registration is lost, and this is the set the
\* inbound dispatcher reads
C14_RegistrationsAccumulate ==
  [][\A m \in RegisterInputs :
       (initialized /\ Register(m)) =>
         /\ registeredMethods' = registeredMethods \cup m
         /\ DispatcherMethods = registeredMethods']_vars

\* ---- store, expirer and deletion, between awaits ----

\* C15: in every reachable state, the states between the awaits of a call
\* included, every topic of the pairing store has its entry in the expirer
C15_StoredTopicHasExpirerEntry ==
  \A t \in StoreKeys : t \in DOMAIN expirer

\* stored pairings that are active with an expiry already in the past
LapsedActive == {t \in StoreKeys : pairings[t].active /\ pairings[t].expiry < now}

\* C16: no read of the store through the public interface observes a pairing
\* that is active with an expiry earlier than the current time: getPairings
\* returns none, and activate, updateExpiry and updateMetadata consult none
C16_NoLapsedActiveObserved ==
  [][initialized =>
       /\ GetPairings => LapsedActive = {}
       /\ \A t \in Topics :
            (\/ Activate(t)
             \/ UpdateMetadata(t, "m1")
             \/ \E e \in ExpiryInputs : UpdateExpiry(t, e)) => t \notin LapsedActive]_vars

\* C17: on every deletion path the symmetric key of a topic is deleted only
\* after relayer.unsubscribe(topic) has completed: at the step that deletes
\* the key the unsubscribe has not thrown and the relay holds no subscription
\* to the topic; when the unsubscribe throws, the deletion routine (and the
\* sweep of init) leaves store, keychain and expirer as they are
C17_UnsubscribeBeforeKeyDelete ==
  [][/\ \A t \in Topics :
          (HasKeys(t) /\ t \notin DOMAIN keychain') => (~unsubFails /\ t \notin subs)
     /\ \A s \in Slots :
          (unsubFails /\ (DeleteAll(s) \/ InitCleanup(s))) =>
             UNCHANGED <<pairings, keychain, expirer, subs>>]_vars

\* a deletion has just failed on its unsubscribe: the pairing, its key, its
\* subscription and its expirer entry are still there
C17_Witness ==
  /\ done.outcome = "RelayError"
  /\ done.op \in {"disconnect", "ping", "validation"}
  /\ done.topic \in StoreKeys
  /\ HasKeys(done.topic)
  /\ done.topic \in subs
  /\ done.topic \in DOMAIN expirer

\* calls that are inside the deletion routine for topic t: between the start
\* of its unsubscribe and its return
Deleting(t) ==
  {s \in Slots : \/ calls[s].pc \in {"del_all", "del_ret"} /\ calls[s].topic = t
                 \/ calls[s].pc = "i_del" /\ t \in calls[s].tset}

\* C18: under any interleaving, at most one execution of the deletion routine
\* for a topic is in progress at a time
C18_OneDeletionPerTopic ==
  \A t \in Topics : Cardinality(Deleting(t)) <= 1

\* ---- expiry ----

\* C19: ping({topic}) or disconnect({topic}) on a stored topic whose expiry
\* has passed goes into the deletion of the pairing and publishes nothing,
\* neither at the call nor while it deletes; it fails with Expired, and when
\* it does the topic is no longer stored, has no key, no subscription and no
\* expirer entry
C19_ExpiredTopicRejected ==
  [][/\ \A t \in Topics :
          (/\ initialized /\ t \in StoreKeys /\ IsExpired(pairings[t].expiry)
           /\ (Ping(t) \/ Disconnect(t))) =>
             /\ \E s \in Slots : /\ calls[s] = Idle
                                 /\ calls'[s].topic = t
                                 /\ calls'[s].pc = "del_all"
                                 /\ calls'[s].after = "Expired"
             /\ published' = published
     /\ \A s \in Slots :
          (calls[s].op \in {"ping", "disconnect"} /\ calls[s].after = "Expired"
           /\ calls'[s] # calls[s]) =>
             /\ published' = published
             /\ calls'[s] = Idle =>
                  /\ done'.op = calls[s].op /\ done'.outcome = "Expired"
                  /\ calls[s].topic \notin DOMAIN pairings'
                  /\ calls[s].topic \notin DOMAIN keychain'
                  /\ calls[s].topic \notin subs'
                  /\ calls[s].topic \notin DOMAIN expirer']_vars

\* a ping or a disconnect has just failed with Expired and the pairing is gone
C19_Witness ==
  /\ done.op \in {"ping", "disconnect"}
  /\ done.outcome = "Expired"
  /\ done.topic \notin StoreKeys
  /\ ~HasKeys(done.topic)
  /\ done.topic \notin subs
  /\ done.topic \notin DOMAIN expirer

\* C20: an expiration event for a topic t, delivered to the listener of the
\* engine. While t is a key of the store the handler starts the deletion of t
\* and emits nothing yet; its next step removes t from the store, with its
\* key and its subscription; only then, as its last step, it emits
\* pairing_expire for t, once. While t is not a key of the store the event
\* starts no call, emits nothing and leaves store, keychain and subscriptions
\* as they are
C20_ExpirationEvent ==
  [][/\ \A t \in Topics \cup {OtherTopic} :
          (/\ ExpirerEvent(t) \/ (t = OtherTopic /\ ForeignExpirerEvent)
           /\ expirerListeners > 0) =>
             /\ done' = NoneDone
             /\ IF t \in StoreKeys
                  THEN \E s \in Slots : /\ calls[s] = Idle
                                        /\ calls'[s].op = "onExpired"
                                        /\ calls'[s].topic = t
                                        /\ \A r \in Slots \ {s} : calls'[r] = calls[r]
                  ELSE UNCHANGED <<pairings, keychain, subs, calls, published>>
     /\ \A s \in Slots :
          (calls[s].op = "onExpired" /\ calls'[s] # calls[s]) =>
             IF calls'[s] = Idle
               THEN /\ calls[s].pc = "del_ret"
                    /\ done' = [op |-> "onExpired", topic |-> calls[s].topic,
                                outcome |-> "ok", val |-> {}]
               ELSE /\ calls'[s].pc = "del_ret"
                    /\ done' = NoneDone
                    /\ calls[s].topic \in DOMAIN pairings
                    /\ calls[s].topic \notin DOMAIN pairings'
                    /\ calls[s].topic \notin DOMAIN keychain'
                    /\ calls[s].topic \notin subs'
     /\ (done'.op = "onExpired" /\ done' # done) =>
          \E s \in Slots : calls[s].op = "onExpired" /\ calls'[s] = Idle]_vars

\* the handler of an expiration event has just emitted pairing_expire for a
\* topic that was stored and is gone
C20_Witness ==
  /\ done.op = "onExpired" /\ done.outcome = "ok"
  /\ done.topic \in Topics
  /\ done.topic \notin StoreKeys
  /\ ~HasKeys(done.topic)
  /\ done.topic \notin subs

\* ---- updateExpiry, updateMetadata ----

\* C21: on an initialized engine updateExpiry and updateMetadata succeed only
\* on a topic that is stored and not expired: on an unknown topic they fail
\* with NoMatchingKey, on a stored topic whose expiry has passed they fail
\* with Expired and go into the deletion of the pairing, and in neither case
\* is any record of the store updated
C21_UpdateValidatesTopic ==
  [][\A t \in Topics :
       (/\ initialized
        /\ \/ UpdateMetadata(t, "m1")
           \/ \E e \in ExpiryInputs : UpdateExpiry(t, e)) =>
          IF t \notin StoreKeys
            THEN done'.outcome = "NoMatchingKey" /\ pairings' = pairings
          ELSE IF IsExpired(pairings[t].expiry)
            THEN /\ pairings' = pairings
                 /\ \/ done'.outcome = "Expired"
                    \/ \E s \in Slots : calls'[s].topic = t /\ calls'[s].after = "Expired"
          ELSE done'.outcome = "ok"]_vars

\* ---- create, failing ----

\* C22: when a create() has failed, no symmetric key, no relay subscription,
\* no store record and no expirer entry is left for the topic of the call
C22_CreateRollsBack ==
  (done.op = "create" /\ done.outcome # "ok") =>
    /\ ~HasKeys(done.topic)
    /\ done.topic \notin subs
    /\ done.topic \notin StoreKeys
    /\ done.topic \notin DOMAIN expirer

\* ---- the initialized flag ----

\* C23: in every reachable state where the initialized flag is true, no
\* init() is still under way or has failed, and the listeners on the relayer
\* and on the expirer are attached
C23_InitializedAfterInit ==
  initialized =>
    /\ \A s \in Slots : calls[s].op # "init"
    /\ relayListeners > 0
    /\ expirerListeners > 0

\* ---- disconnect: publish, then delete ----

\* the wc_pairingDelete requests for topic t under request id i in the
\* sequence pub of published messages
DeleteRequests(pub, t, i) ==
  {k \in 1..Len(pub) :
     /\ pub[k].type = "request" /\ pub[k].id = i
     /\ pub[k].topic = t /\ pub[k].method = "wc_pairingDelete"
     /\ pub[k].reason = "USER_DISCONNECTED"}

\* C24: a disconnect({topic}) on a stored topic publishes one wc_pairingDelete
\* request with the user-disconnected reason, and that step touches neither
\* subscription, store, keychain nor expirer; the call begins its unsubscribe
\* only with that one request published, and publishes nothing from then on
C24_PublishBeforeDelete ==
  [][\A s \in Slots :
       LET f == calls[s] IN
       /\ DisconnectPublish(s) =>
            /\ Len(published') = Len(published) + 1
            /\ DeleteRequests(published, f.topic, f.id) = {}
            /\ DeleteRequests(published', f.topic, f.id) = {Len(published')}
            /\ UNCHANGED world
       /\ DisconnectDelete(s) =>
            Cardinality(DeleteRequests(published, f.topic, f.id)) = 1
       /\ (f.op = "disconnect" /\ f.after = "ok" /\ f.pc \in {"del_all", "del_ret"}
           /\ calls'[s] # f) =>
            /\ Cardinality(DeleteRequests(published', f.topic, f.id)) = 1
            /\ published' = published]_vars

\* a disconnect() has returned with its one request published
C24_Witness ==
  /\ done.op = "disconnect" /\ done.outcome = "ok"
  /\ \E k \in 1..Len(published) :
       /\ published[k].topic = done.topic
       /\ published[k].method = "wc_pairingDelete"
       /\ published[k].reason = "USER_DISCONNECTED"
       /\ \A j \in 1..Len(published) :
            (published[j].topic = done.topic /\ published[j].type = "request") => j = k

\* ---- expirer.del ----

\* C25: the deletion started by an expiration event leaves the entries of the
\* expirer as they are, it does not call expirer.del; the deletion of every
\* other path (disconnect, inbound wc_pairingDelete, validation of an expired
\* topic, sweep of init) removes the entry of its topic, in its one step
\* after the unsubscribe
C25_ExpirerDelByPath ==
  [][\A s \in Slots :
       /\ (DeleteAll(s) /\ ~unsubFails) =>
            IF calls[s].op = "onExpired"
              THEN expirer' = expirer
              ELSE expirer' = MapDel(expirer, calls[s].topic)
       /\ InitDeleteOne(s) =>
            \E t \in calls[s].tset : /\ calls'[s].tset = calls[s].tset \ {t}
                                     /\ expirer' = MapDel(expirer, t)]_vars

\* the deletion started by an expiration event has deleted record and key of
\* its topic, and the expirer holds an entry for the topic, set again by an
\* activate that ran beside it: nothing on that path removes it
C25_Witness ==
  \E s \in Slots :
    /\ calls[s].op = "onExpired" /\ calls[s].pc = "del_ret"
    /\ calls[s].topic \in DOMAIN expirer
    /\ calls[s].topic \notin StoreKeys

\* ---- inbound wc_pairingPing and wc_pairingDelete ----

\* the responses of the given kind to request id i on topic t in the sequence
\* pub of published messages
Responses(pub, t, i, kind) ==
  {k \in 1..Len(pub) : pub[k].type = kind /\ pub[k].id = i /\ pub[k].topic = t}

\* C26: when no other call runs meanwhile, an inbound wc_pairingPing request
\* with id i on a stored topic that has not expired goes to sendResult and emits nothing yet; its publish adds
\* the one success result with id i on the topic; only its last step emits
\* pairing_ping, with that one result published; no step of it changes the
\* store
C26_InboundPing ==
  [][\A s \in Slots :
       LET f == calls[s] IN
       /\ (/\ RequestDispatch(s) /\ f.method = "wc_pairingPing"
           /\ f.topic \in StoreKeys /\ ~IsExpired(pairings[f.topic].expiry)) =>
            /\ calls'[s] = [f EXCEPT !.pc = "q_pub", !.after = "result"]
            /\ done' = NoneDone
            /\ published' = published
            /\ UNCHANGED world
       /\ (RequestPublish(s) /\ f.after = "result") =>
            /\ Responses(published, f.topic, f.id, "result") = {}
            /\ published' = Append(published, Response(f.topic, "result", f.id, "-"))
            /\ done' = NoneDone
            /\ UNCHANGED world
       /\ (RequestDone(s) /\ f.after = "result") =>
            /\ done' = [op |-> "onRequest", topic |-> f.topic,
                        outcome |-> "pairing_ping", val |-> {f.id}]
            /\ Cardinality(Responses(published, f.topic, f.id, "result")) = 1
            /\ Responses(published, f.topic, f.id, "error") = {}
            /\ published' = published
            /\ UNCHANGED world]_vars

\* the handler of an inbound ping has emitted pairing_ping after publishing
\* its result, and the pairing is still stored
C26_Witness ==
  /\ done.op = "onRequest" /\ done.outcome = "pairing_ping"
  /\ done.topic \in StoreKeys
  /\ \E i \in done.val : Responses(published, done.topic, i, "result") # {}

\* C27: an inbound wc_pairingDelete request on a stored topic that has not
\* expired starts the deletion of the pairing and nothing else, and emits
\* nothing yet; the step after the unsubscribe removes record, key and
\* expirer entry of the topic, which has no subscription then; only the last
\* step emits pairing_delete, once
C27_InboundDelete ==
  [][\A s \in Slots :
       LET f == calls[s] IN
       /\ (/\ RequestDispatch(s) /\ f.method = "wc_pairingDelete"
           /\ f.topic \in StoreKeys /\ ~IsExpired(pairings[f.topic].expiry)) =>
            /\ calls' = [calls EXCEPT ![s] = [f EXCEPT !.pc = "del_all",
                                                       !.after = "pairing_delete"]]
            /\ done' = NoneDone
            /\ published' = published
       /\ (f.op = "onRequest" /\ f.after = "pairing_delete" /\ calls'[s] # f) =>
            IF f.pc = "del_all"
              THEN /\ calls'[s].pc = "del_ret"
                   /\ done' = NoneDone
                   /\ f.topic \notin DOMAIN pairings'
                   /\ f.topic \notin DOMAIN keychain'
                   /\ f.topic \notin DOMAIN expirer'
                   /\ f.topic \notin subs'
              ELSE /\ f.pc = "del_ret" /\ calls'[s] = Idle
                   /\ done' = [op |-> "onRequest", topic |-> f.topic,
                               outcome |-> "pairing_delete", val |-> {}]
                   /\ UNCHANGED world
       /\ (done'.outcome = "pairing_delete" /\ done' # done) =>
            \E r \in Slots : calls[r].after = "pairing_delete" /\ calls'[r] = Idle]_vars

\* the handler of an inbound delete has emitted pairing_delete and the
\* pairing is gone, with its key, its subscription and its expirer entry
C27_Witness ==
  /\ done.op = "onRequest" /\ done.outcome = "pairing_delete"
  /\ done.topic \notin StoreKeys
  /\ ~HasKeys(done.topic)
  /\ done.topic \notin subs
  /\ done.topic \notin DOMAIN expirer

\* C28: an inbound wc_pairingPing or wc_pairingDelete request on a stored
\* topic whose pairing has expired is answered with an error response: the
\* handler goes to the publish of an error, starts neither a success result
\* nor a deletion that ends in pairing_delete, and no validation is left
\* running whose failure nobody catches
C28_InvalidRequestAnswered ==
  [][\A s \in Slots :
       LET f == calls[s] IN
       (/\ RequestDispatch(s)
        /\ f.method \in {"wc_pairingPing", "wc_pairingDelete"}
        /\ f.topic \in StoreKeys /\ IsExpired(pairings[f.topic].expiry)) =>
          /\ calls'[s].pc = "q_pub"
          /\ calls'[s].after \notin {"result", "pairing_delete"}
          /\ \A r \in Slots : calls'[r].op # "validation"]_vars

\* ---- ping: listener and response ----

\* C29: whenever the response event of a ping request is emitted, the
\* correlation listener for its request id is registered, so no response is
\* emitted to nobody and lost
C29_ListenerBeforeEmit ==
  [][EmitPingResponse => \A tm \in timers \ timers' : tm.id \in pingListeners]_vars

\* ---- life of a pairing ----

\* C30: a record that stays in the store never goes from active to inactive;
\* a record enters the store inactive, by create or by pair; there is no
\* other state of a record than inactive, active or not in the store
C30_LifecycleForward ==
  [][\A t \in Topics :
       /\ (t \in DOMAIN pairings /\ t \in DOMAIN pairings' /\ pairings[t].active) =>
            pairings'[t].active
       /\ (t \notin DOMAIN pairings /\ t \in DOMAIN pairings') =>
            /\ ~pairings'[t].active
            /\ \/ \E s \in Slots : CreateStore(s) /\ calls[s].topic = t
               \/ \E uri \in Uris, a \in BOOLEAN : Pair(uri, a) /\ ParseUri(uri).topic = t
       /\ t \in DOMAIN pairings' => pairings'[t].active \in BOOLEAN]_vars

\* a pair() with activatePairing has returned: the pairing it stored
\* inactive is active now
C30_Witness ==
  /\ done.op = "pair" /\ done.outcome = "ok"
  /\ done.topic \in StoreKeys
  /\ pairings[done.topic].active

\* ---- value returned by pair ----

\* C31: the Pairing returned by a successful pair() with activatePairing
\* equals the record stored for the topic at the return: active = true and
\* the expiry THIRTY_DAYS from the activation
C31_PairReturnsStoredRecord ==
  [][\A s \in Slots :
       (/\ calls[s].op = "pair" /\ calls[s].flag
        /\ calls'[s] = Idle /\ done'.outcome = "ok"
        /\ calls[s].topic \in DOMAIN pairings') =>
          done'.val = {[topic |-> calls[s].topic,
                        expiry |-> pairings'[calls[s].topic].expiry,
                        active |-> pairings'[calls[s].topic].active]}]_vars

\* ---- expirer entries and the store ----

\* C32: in every state in which no operation and no event handler is in
\* progress, every topic with an entry in the expirer is a key of the pairing
\* store, whatever deletion ran between the store update of an activate and
\* its expirer.set
C32_NoOrphanExpirerEntry ==
  (\A s \in Slots : calls[s] = Idle) => DOMAIN expirer \subseteq StoreKeys

\* C33: whenever no operation is in progress, the expiry scheduled in the
\* expirer for a stored topic is the expiry field of the stored record, after
\* create, pair and activate and also after updateExpiry (that a stored topic
\* has an entry at all is C15)
C33_ExpirerMatchesRecord ==
  (\A s \in Slots : calls[s] = Idle) =>
    \A t \in StoreKeys \cap DOMAIN expirer : expirer[t] = pairings[t].expiry

=============================================================================
